---- MODULE Spec2Model ----
(***************************************************************************)
(* FlowMind (src/src/App.jsx): the priority cache, the ranking call and    *)
(* the prioritization coordinator runPrioritize, with the handlers of the  *)
(* FlowMind component that call it and the storage items they share.       *)
(*                                                                         *)
(* JavaScript values are modelled as follows.                              *)
(*   undefined / null      the strings Undefined / Null; a task's or a     *)
(*                         cache pair's priorityReason that is absent or   *)
(*                         null is Null (JSON.stringify drops the one and  *)
(*                         keeps the other, no code tells them apart)      *)
(*   a task record         [id, status, priorityReason, doneAt]; the       *)
(*                         fields the coordinator never reads (title,      *)
(*                         deadline, priority, category, energy, note)     *)
(*                         are carried along unchanged and are left out    *)
(*   Date.now()            the variable now, in milliseconds               *)
(*   a localStorage item   [kind |-> "absent"], [kind |-> "malformed"]     *)
(*                         (text JSON.parse rejects) or an entry           *)
(*   an async call         a record in inflight between the step that      *)
(*                         starts it and the step that resolves it         *)
(***************************************************************************)
EXTENDS Integers, Sequences, FiniteSets, TLC

\* ---------------------------------------------------------------- bounds
\* ids handed out by uid() in one behaviour
MaxId == 4
\* longest "order" array the ranking oracle answers with
MaxOrderLen == 2
\* runPrioritize calls awaiting the oracle at the same time
MaxInflight == 2
\* pending handleDone timers at the same time
MaxTimers == 2
\* active tasks of the first-start seed list (the source seeds 4 active
\* tasks followed by 1 done task; the model keeps that shape)
SeedActive == 2
\* the clock stops advancing past this many milliseconds
MaxNow == 3660000
\* oracle requests sent in one behaviour
MaxCalls == 2
\* oracle responses that are well-formed rankings in one behaviour
MaxRankings == 1
\* times the page is opened in one behaviour
MaxOpens == 2
\* done clicks, deletions and edit dialogs opened in one behaviour
MaxEdits == 2

\* ------------------------------------------------------------- constants
MinuteMs == 60 * 1000
\* 60 * 60 * 1000, the literal of isPriorityCacheValid
TTL == 60 * 60 * 1000
\* runPrioritize: if (active.length < 2) return currentTasks
Threshold == 2

Undefined == "undefined"
Null == "null"
NoTime == 0 - 1
\* an id the oracle invents: uid() never hands it out
InventedId == MaxId + 1

VARIABLES
    phase,              \* "closed" | "rendered" | "mounted" | "crashed"
    tasks,              \* useState tasks of FlowMind
    prioritizing,       \* useState prioritizing
    lastPrioritized,    \* useState lastPrioritized (NoTime for null)
    fm_tasks,           \* localStorage item fm_tasks (parsed)
    fm_priority_cache,  \* localStorage item fm_priority_cache
    now,                \* Date.now()
    nextId,             \* next value uid() returns
    inflight,           \* runPrioritize calls suspended at await prioritizeTasks:
                        \* the records of Call
    timers,             \* pending setTimeout callbacks of handleDone: the
                        \* records of Timer
    editingTask,        \* useState editingTask, with the form copy of the
                        \* open EditTaskModal: <<>> or <<task>>
    last,               \* the runPrioritize step taken by the last transition
    used                \* what the behaviour has spent of its bounds

vars == <<phase, tasks, prioritizing, lastPrioritized, fm_tasks,
          fm_priority_cache, now, nextId, inflight, timers, editingTask,
          last, used>>

\* ------------------------------------------------------- sequence helpers
RECURSIVE SeqToSet(_)
SeqToSet(s) == IF s = <<>> THEN {} ELSE {Head(s)} \cup SeqToSet(Tail(s))

IdsOf(ts) == {ts[i].id : i \in 1..Len(ts)}

IdList(ts) == [i \in 1..Len(ts) |-> ts[i].id]

IsActive(t) == t.status = "active"

\* currentTasks.filter((t) => t.status === "active")
ActiveOf(ts) == SelectSeq(ts, IsActive)

\* currentTasks.filter((t) => t.status !== "active")
DoneOf(ts) == SelectSeq(ts, LAMBDA t : ~IsActive(t))

\* Object.fromEntries(ts.map((t) => [t.id, t]))[id]: the last record with
\* that id wins; only called when the id is a key
MapGet(ts, id) ==
    LET idx == {i \in 1..Len(ts) : ts[i].id = id}
    IN  ts[CHOOSE i \in idx : \A j \in idx : j <= i]

\* ---------------------------------------------------------- storage layer
AbsentItem == [kind |-> "absent"]
MalformedItem == [kind |-> "malformed"]
Entry(data, at) == [kind |-> "entry", data |-> data, at |-> at]

\* the entry still counted valid at exactly one hour
isPriorityCacheValidInclusive(item, t) ==
    IF item.kind = "malformed" THEN "throw"
    ELSE IF item.kind = "absent" THEN "false"
    ELSE IF t - item.at <= TTL THEN "true" ELSE "false"

\* storage.isPriorityCacheValid at time t: "true", "false", or "throw" when
\* JSON.parse rejects the stored text (the call is not inside any try)
isPriorityCacheValid(item, t) ==
    IF item.kind = "malformed" THEN "throw"
    ELSE IF item.kind = "absent" THEN "false"
    ELSE IF t - item.at < TTL THEN "true" ELSE "false"

\* cached?.data of runPrioritize, cached = storage.getPriorityCache(): an
\* entry written by savePriorityCache holds an array, which is truthy
HasData(item) == item.kind = "entry"

\* the argument of storage.savePriorityCache in runPrioritize
CacheData(sorted) ==
    [i \in 1..Len(sorted) |->
        [id |-> sorted[i].id, priorityReason |-> sorted[i].priorityReason]]

\* storage.savePriorityCache(data)
savePriorityCache(data, t) == Entry(data, t)

\* ------------------------------------------------------------ the oracle
\* What one callClaude round trip can end in.
\*   no_key         VITE_ANTHROPIC_KEY unset: returns ""
\*   network_error  fetch rejects: callClaude rejects
\*   non_2xx        !res.ok: returns ""
\*   bad_body       res.json() rejects: callClaude rejects
\*   no_text        data.content?.[0]?.text is falsy: returns ""
\*   text_nonjson   text that JSON.parse rejects
\*   json_no_order  JSON without an order array
\*   json           JSON with order (and reasons)
FailureOutcomes ==
    {"no_key", "network_error", "non_2xx", "bad_body", "no_text",
     "text_nonjson", "json_no_order"}

ReasonInputs == {Undefined, "", "r"}

Orders(ids) ==
    UNION {[1..n -> ids \cup {InventedId}] : n \in 0..MaxOrderLen}

\* the reasons objects of the responses: an entry (a text or "") for the
\* first id of the order at most, as in reasons = {T2: "quick win"} for
\* order = [T2, T1]
ReasonMaps(ids, ord) ==
    {rs \in [ids -> ReasonInputs] :
        \A i \in ids : (ord = <<>> \/ i # Head(ord)) => rs[i] = Undefined}

\* the responses to a request that submitted the tasks with these ids
Responses(ids) ==
    {[outcome |-> o, order |-> <<>>, reasons |-> [i \in ids |-> Undefined]] :
        o \in FailureOutcomes}
    \cup
    UNION {{[outcome |-> "json", order |-> ord, reasons |-> rs] :
                rs \in ReasonMaps(ids, ord)} : ord \in Orders(ids)}

\* callClaude rejects (the await in prioritizeTasks is outside its try)
callClaudeThrows(resp) == resp.outcome \in {"network_error", "bad_body"}

\* the try block of prioritizeTasks throws: JSON.parse(clean) rejects the
\* text, or result.order.map is not callable
ParseFails(resp) ==
    resp.outcome \in {"no_key", "non_2xx", "no_text", "text_nonjson", "json_no_order"}

HourMs == 60 * MinuteMs

\* new Date().getHours(), the clock counting from a local midnight
getHours(t) == (t \div HourMs) % 24

\* noon counted as morning
timeOfDayNoonIsMorning(hour) ==
    IF hour <= 12 THEN "morning" ELSE IF hour < 17 THEN "afternoon" ELSE "evening"

\* hour < 12 ? "morning" : hour < 17 ? "afternoon" : "evening"
timeOfDay(hour) ==
    IF hour < 12 THEN "morning" ELSE IF hour < 17 THEN "afternoon" ELSE "evening"

\* what prioritizeTasks(ts) puts into its prompt at time t: the time of day
\* and one summary per task it was given (of a summary's fields id, title,
\* priority, energy, deadline and category the model keeps the id)
OracleRequest(ts, t) ==
    [timeOfDay |-> timeOfDay(getHours(t)), tasks |-> IdList(ts)]

\* result.reasons?.[t.id] || null
ReasonOrNull(v) == IF v \in {Undefined, "", Null} THEN Null ELSE v

\* the reasons attached, the submitted order kept
SortedByInputOrder(order, reasons, ts) ==
    [i \in 1..Len(ts) |->
        [ts[i] EXCEPT !.priorityReason = ReasonOrNull(reasons[ts[i].id])]]

\* result.order.map((id) => map[id]).filter(Boolean).map(attach reason)
RECURSIVE SortedBy(_, _, _)
SortedBy(order, reasons, ts) ==
    IF order = <<>> THEN <<>>
    ELSE LET id == Head(order)
             rest == SortedBy(Tail(order), reasons, ts)
         IN  IF id \in IdsOf(ts)
             THEN <<[MapGet(ts, id) EXCEPT
                        !.priorityReason = ReasonOrNull(reasons[id])]>> \o rest
             ELSE rest

\* the catch block returning no tasks
prioritizeTasksCatchEmpty(ts, resp) ==
    IF ts = <<>> THEN ts
    ELSE IF ParseFails(resp) THEN <<>>
    ELSE SortedBy(resp.order, resp.reasons, ts)

\* prioritizeTasks(ts) when callClaude does not reject
prioritizeTasks(ts, resp) ==
    IF ts = <<>> THEN ts
    ELSE IF ParseFails(resp) THEN ts
    ELSE SortedBy(resp.order, resp.reasons, ts)

\* -------------------------------------------------------- the coordinator
\* a cached id that is no longer in the list emitted as a task again
RECURSIVE ReorderedResurrecting(_, _)
ReorderedResurrecting(data, cur) ==
    IF data = <<>> THEN <<>>
    ELSE LET c == Head(data)
             rest == ReorderedResurrecting(Tail(data), cur)
         IN  IF c.id \in IdsOf(cur)
             THEN <<[MapGet(cur, c.id) EXCEPT
                        !.priorityReason = c.priorityReason]>> \o rest
             ELSE <<[id |-> c.id, status |-> "active",
                     priorityReason |-> c.priorityReason,
                     doneAt |-> NoTime]>> \o rest

\* cached.data.map((t) => map[t.id] ? {...map[t.id], priorityReason:
\* t.priorityReason} : null).filter(Boolean)
RECURSIVE Reordered(_, _)
Reordered(data, cur) ==
    IF data = <<>> THEN <<>>
    ELSE LET c == Head(data)
             rest == Reordered(Tail(data), cur)
         IN  IF c.id \in IdsOf(cur)
             THEN <<[MapGet(cur, c.id) EXCEPT
                        !.priorityReason = c.priorityReason]>> \o rest
             ELSE rest

\* the tasks the cache does not name collected back to front
RECURSIVE Reversed(_)
Reversed(ts) == IF ts = <<>> THEN <<>> ELSE Reversed(Tail(ts)) \o <<Head(ts)>>

RemainingReversed(data, cur) ==
    Reversed(SelectSeq(cur, LAMBDA t : t.id \notin {data[i].id : i \in 1..Len(data)}))

\* currentTasks.filter((t) => !cachedIds.has(t.id))
Remaining(data, cur) ==
    SelectSeq(cur, LAMBDA t : t.id \notin {data[i].id : i \in 1..Len(data)})

\* the tasks the cache does not name put first
ReconcileRemainingFirst(data, cur) == Remaining(data, cur) \o Reordered(data, cur)

\* [...reordered, ...remaining]
Reconcile(data, cur) == Reordered(data, cur) \o Remaining(data, cur)

\* the cache never consulted
CacheCheckMiss(force, item, t) == "false"

\* the cache consulted even when force is set
CacheCheckIgnoresForce(force, item, t) == isPriorityCacheValid(item, t)

\* !force && storage.isPriorityCacheValid(): force short-circuits the read
CacheCheck(force, item, t) ==
    IF force THEN "false" ELSE isPriorityCacheValid(item, t)

\* the threshold test left out
RunSyncNoThreshold(cur, force, item, t) ==
    IF CacheCheck(force, item, t) = "throw"
    THEN [result |-> "raise", path |-> "cache", ret |-> cur]
    ELSE IF CacheCheck(force, item, t) = "true" /\ HasData(item)
    THEN [result |-> "return", path |-> "hit", ret |-> Reconcile(item.data, cur)]
    ELSE [result |-> "await", path |-> "oracle", ret |-> cur]

\* runPrioritize up to its first suspension: how it leaves and with what
RunSync(cur, force, item, t) ==
    IF Len(ActiveOf(cur)) < Threshold
    THEN [result |-> "return", path |-> "skip", ret |-> cur]
    ELSE IF CacheCheck(force, item, t) = "throw"
    THEN [result |-> "raise", path |-> "cache", ret |-> cur]
    ELSE IF CacheCheck(force, item, t) = "true" /\ HasData(item)
    THEN [result |-> "return", path |-> "hit", ret |-> Reconcile(item.data, cur)]
    ELSE [result |-> "await", path |-> "oracle", ret |-> cur]

\* runPrioritize from the await on: the list it returns
RunAsyncRet(cur, resp) ==
    IF callClaudeThrows(resp) THEN cur
    ELSE prioritizeTasks(ActiveOf(cur), resp) \o DoneOf(cur)

\* the submitted active tasks cached instead of the ranked ones
RunAsyncCacheSubmitted(cur, resp, item, t) ==
    IF callClaudeThrows(resp) THEN item
    ELSE savePriorityCache(CacheData(ActiveOf(cur)), t)

\* runPrioritize from the await on: the cache item it leaves
RunAsyncCache(cur, resp, item, t) ==
    IF callClaudeThrows(resp) THEN item
    ELSE savePriorityCache(CacheData(prioritizeTasks(ActiveOf(cur), resp)), t)

\* ------------------------------------------------------------ task store
\* a task as the capture collaborators hand it to handleAdd, and as the
\* seed list spells it: no priorityReason, no doneAt
NewTask(id, status) ==
    [id |-> id, status |-> status, priorityReason |-> Null, doneAt |-> NoTime]

\* the list the mount effect seeds an empty store with: active tasks
\* followed by one done task, ids from uid()
SeedTasks(first) ==
    [i \in 1..(SeedActive + 1) |->
        NewTask(first + i - 1, IF i <= SeedActive THEN "active" ELSE "done")]

\* tasks.map((t) => t.id === id ? {...t, status: "done", doneAt: now} : t)
MarkDone(ts, id, t) ==
    [i \in 1..Len(ts) |->
        IF ts[i].id = id THEN [ts[i] EXCEPT !.status = "done", !.doneAt = t]
        ELSE ts[i]]

\* tasks.filter((t) => t.id !== id)
Without(ts, id) == SelectSeq(ts, LAMBDA t : t.id # id)

\* ----------------------------------------------------- observed call step
NoCall == [step |-> "none"]
NoResp == [outcome |-> "none"]

\* the ids handleAdd adds with its call: updated = [task, ...tasks]
AddedBy(origin, cur) == IF origin = "add" THEN {cur[1].id} ELSE {}

\* a runPrioritize call as the model follows it while it is in flight.
\*   overlapped  another call was awaiting the oracle when this one was
\*               made, or one was made while this one was awaiting it
\*   deleted     the ids handleDelete removed while this call was in flight
\*   adds        the ids added by this call's handleAdd and by the
\*               handleAdd calls that overlapped it
Call(origin, cur, force, others) ==
    [origin |-> origin, input |-> cur, force |-> force,
     overlapped |-> others # <<>>, deleted |-> {},
     adds |-> AddedBy(origin, cur)
                \cup UNION {others[i].adds : i \in 1..Len(others)}]

CallStep(step, call, item, t, result, path, ret, resp, calls, writes) ==
    [step |-> step, origin |-> call.origin, input |-> call.input,
     force |-> call.force, cachePre |-> item, at |-> t, result |-> result,
     path |-> path, ret |-> ret, resp |-> resp, oracleCalls |-> calls,
     cacheWrites |-> writes, overlapped |-> call.overlapped,
     deleted |-> call.deleted, adds |-> call.adds]

\* the calls in flight when another call, adding these ids, joins them
Overlapped(calls, added) ==
    [i \in 1..Len(calls) |->
        [calls[i] EXCEPT !.overlapped = TRUE, !.adds = @ \cup added]]

\* the calls in flight when handleDelete(id) runs
Deleting(calls, id) ==
    [i \in 1..Len(calls) |-> [calls[i] EXCEPT !.deleted = @ \cup {id}]]

\* ---------------------------------------------------------------- Init
\* first start: nothing stored, the page not yet open
Init ==
    /\ phase = "closed"
    /\ tasks = <<>>
    /\ prioritizing = FALSE
    /\ lastPrioritized = NoTime
    /\ fm_tasks = <<>>
    /\ fm_priority_cache = AbsentItem
    /\ now = 0
    /\ nextId = 1
    /\ inflight = <<>>
    /\ timers = <<>>
    /\ editingTask = <<>>
    /\ last = NoCall
    /\ used = [calls |-> 0, rankings |-> 0, opens |-> 0, edits |-> 0]

\* ------------------------------------------------------------- actions
\* the cache-hit path saving the reconciled order as a new entry
StartCallSavesOnHit(origin, cur, force, held, stored) ==
    LET r == RunSync(cur, force, fm_priority_cache, now)
    IN  /\ r.result = "await" => used.calls < MaxCalls /\ Len(inflight) < MaxInflight
        /\ used' = IF r.result = "await" THEN [used EXCEPT !.calls = @ + 1] ELSE used
        /\ tasks' = IF r.result = "return" THEN r.ret ELSE held
        /\ fm_tasks' = IF r.result = "return" THEN r.ret ELSE stored
        /\ inflight' = IF r.result = "await"
                        THEN Append(Overlapped(inflight, AddedBy(origin, cur)),
                                    Call(origin, cur, force, inflight))
                        ELSE inflight
        /\ prioritizing' = IF r.result = "await" THEN TRUE ELSE prioritizing
        /\ last' = CallStep("start", Call(origin, cur, force, inflight),
                            fm_priority_cache, now, r.result, r.path, r.ret, NoResp,
                            IF r.result = "await" THEN 1 ELSE 0, 0)
        /\ fm_priority_cache' = IF r.path = "hit"
                                 THEN savePriorityCache(CacheData(r.ret), now)
                                 ELSE fm_priority_cache
        /\ UNCHANGED lastPrioritized

\* a call made while another awaits the oracle returning its input at once
StartCallOneInFlight(origin, cur, force, held, stored) ==
    LET r == IF inflight # <<>>
             THEN [result |-> "return", path |-> "skip", ret |-> cur]
             ELSE RunSync(cur, force, fm_priority_cache, now)
    IN  /\ r.result = "await" => used.calls < MaxCalls /\ Len(inflight) < MaxInflight
        /\ used' = IF r.result = "await" THEN [used EXCEPT !.calls = @ + 1] ELSE used
        /\ tasks' = IF r.result = "return" THEN r.ret ELSE held
        /\ fm_tasks' = IF r.result = "return" THEN r.ret ELSE stored
        /\ inflight' = IF r.result = "await"
                        THEN Append(Overlapped(inflight, AddedBy(origin, cur)),
                                    Call(origin, cur, force, inflight))
                        ELSE inflight
        /\ prioritizing' = IF r.result = "await" THEN TRUE ELSE prioritizing
        /\ last' = CallStep("start", Call(origin, cur, force, inflight),
                            fm_priority_cache, now, r.result, r.path, r.ret, NoResp,
                            IF r.result = "await" THEN 1 ELSE 0, 0)
        /\ UNCHANGED <<fm_priority_cache, lastPrioritized>>

\* runPrioritize(cur, force) called by origin, and the caller's
\* continuation (setTasks(sorted); storage.saveTasks(sorted)) when the call
\* returns without suspending. held and stored are the in-memory and the
\* persisted list the caller leaves when the call suspends or raises.
StartCall(origin, cur, force, held, stored) ==
    LET r == RunSync(cur, force, fm_priority_cache, now)
    IN  /\ r.result = "await" => used.calls < MaxCalls /\ Len(inflight) < MaxInflight
        /\ used' = IF r.result = "await" THEN [used EXCEPT !.calls = @ + 1] ELSE used
        /\ tasks' = IF r.result = "return" THEN r.ret ELSE held
        /\ fm_tasks' = IF r.result = "return" THEN r.ret ELSE stored
        /\ inflight' = IF r.result = "await"
                        THEN Append(Overlapped(inflight, AddedBy(origin, cur)),
                                    Call(origin, cur, force, inflight))
                        ELSE inflight
        /\ prioritizing' = IF r.result = "await" THEN TRUE ELSE prioritizing
        /\ last' = CallStep("start", Call(origin, cur, force, inflight),
                            fm_priority_cache, now, r.result, r.path, r.ret, NoResp,
                            IF r.result = "await" THEN 1 ELSE 0, 0)
        /\ UNCHANGED <<fm_priority_cache, lastPrioritized>>

\* the page is opened: FlowMind renders, its useState initialisers read
\* storage; getPriorityCache throws on a malformed item and the render fails
Render ==
    /\ phase = "closed"
    /\ used.opens < MaxOpens
    /\ used' = [used EXCEPT !.opens = @ + 1]
    /\ phase' = IF fm_priority_cache.kind = "malformed" THEN "crashed" ELSE "rendered"
    /\ tasks' = IF fm_priority_cache.kind = "malformed" THEN <<>> ELSE fm_tasks
    /\ lastPrioritized' = IF fm_priority_cache.kind = "entry"
                              /\ fm_priority_cache.at # 0
                           THEN fm_priority_cache.at ELSE NoTime
    /\ prioritizing' = FALSE
    /\ last' = NoCall
    /\ UNCHANGED <<fm_tasks, fm_priority_cache, now, nextId, inflight, timers,
                   editingTask>>

\* the mount effect with a stored list: runPrioritize(initialTasks)
MountStored ==
    /\ phase = "rendered"
    /\ fm_tasks # <<>>
    /\ phase' = "mounted"
    /\ StartCall("mount", fm_tasks, FALSE, tasks, fm_tasks)
    /\ UNCHANGED <<now, nextId, timers, editingTask>>

\* the mount effect with an empty store: seed, save, then runPrioritize
MountSeed ==
    /\ phase = "rendered"
    /\ fm_tasks = <<>>
    /\ nextId + SeedActive <= MaxId
    /\ phase' = "mounted"
    /\ nextId' = nextId + SeedActive + 1
    /\ StartCall("mount", SeedTasks(nextId), FALSE, SeedTasks(nextId), SeedTasks(nextId))
    /\ UNCHANGED <<now, timers, editingTask>>

\* handleAdd(task) with a task from the add dialog
handleAdd ==
    /\ phase = "mounted"
    /\ editingTask = <<>>
    /\ nextId <= MaxId
    /\ nextId' = nextId + 1
    /\ StartCall("add", <<NewTask(nextId, "active")>> \o tasks, TRUE, tasks, fm_tasks)
    /\ UNCHANGED <<phase, now, timers, editingTask>>

\* handleReprioritize, the refresh button (disabled={prioritizing})
handleReprioritize ==
    /\ phase = "mounted"
    /\ editingTask = <<>>
    /\ ~prioritizing
    /\ StartCall("reprioritize", tasks, TRUE, tasks, fm_tasks)
    /\ UNCHANGED <<phase, now, nextId, timers, editingTask>>

\* runPrioritize resuming without its finally block: setPrioritizing(false)
\* only where the try block completes
OracleResolveNoFinally ==
    \E k \in 1..Len(inflight) :
        LET call == inflight[k]
        IN  \E resp \in Responses(IdsOf(ActiveOf(call.input))) :
                LET ranked == IF resp.outcome = "json" THEN 1 ELSE 0
                    ret == RunAsyncRet(call.input, resp)
                    item == RunAsyncCache(call.input, resp, fm_priority_cache, now)
                IN  /\ used.rankings + ranked <= MaxRankings
                    /\ used' = [used EXCEPT !.rankings = @ + ranked]
                    /\ tasks' = ret
                    /\ fm_tasks' = ret
                    /\ fm_priority_cache' = item
                    /\ lastPrioritized' = IF callClaudeThrows(resp)
                                           THEN lastPrioritized ELSE now
                    /\ prioritizing' = IF callClaudeThrows(resp)
                                        THEN prioritizing ELSE FALSE
                    /\ inflight' = SubSeq(inflight, 1, k - 1)
                                    \o SubSeq(inflight, k + 1, Len(inflight))
                    /\ last' = CallStep("resolve", call, fm_priority_cache, now,
                                        "return", "oracle", ret, resp, 1,
                                        IF callClaudeThrows(resp) THEN 0 ELSE 1)
                    /\ UNCHANGED <<phase, now, nextId, timers, editingTask>>

\* the oracle answers call k: runPrioritize resumes, then its caller's
\* continuation runs (setTasks(sorted); storage.saveTasks(sorted))
OracleResolve ==
    \E k \in 1..Len(inflight) :
        LET call == inflight[k]
        IN  \E resp \in Responses(IdsOf(ActiveOf(call.input))) :
                LET ranked == IF resp.outcome = "json" THEN 1 ELSE 0
                    ret == RunAsyncRet(call.input, resp)
                    item == RunAsyncCache(call.input, resp, fm_priority_cache, now)
                IN  /\ used.rankings + ranked <= MaxRankings
                    /\ used' = [used EXCEPT !.rankings = @ + ranked]
                    /\ tasks' = ret
                    /\ fm_tasks' = ret
                    /\ fm_priority_cache' = item
                    /\ lastPrioritized' = IF callClaudeThrows(resp)
                                           THEN lastPrioritized ELSE now
                    /\ prioritizing' = FALSE
                    /\ inflight' = SubSeq(inflight, 1, k - 1)
                                    \o SubSeq(inflight, k + 1, Len(inflight))
                    /\ last' = CallStep("resolve", call, fm_priority_cache, now,
                                        "return", "oracle", ret, resp, 1,
                                        IF callClaudeThrows(resp) THEN 0 ELSE 1)
                    /\ UNCHANGED <<phase, now, nextId, timers, editingTask>>

\* a pending setTimeout callback of handleDone(id): the tasks its closure
\* captured, and (within) the ids whose completion was requested while
\* this callback or one it overlapped was pending, its own included
Timer(id, ts, others) ==
    [id |-> id, tasks |-> ts,
     within |-> {id} \cup UNION {others[k].within : k \in 1..Len(others)}]

\* the pending callbacks when handleDone(id) is called
Joined(others, id) ==
    [k \in 1..Len(others) |-> [others[k] EXCEPT !.within = @ \cup {id}]]

\* handleDone(id): the done button of a task card starts the timer
handleDone ==
    /\ phase = "mounted"
    /\ editingTask = <<>>
    /\ used.edits < MaxEdits
    /\ used' = [used EXCEPT !.edits = @ + 1]
    /\ Len(timers) < MaxTimers
    /\ \E i \in 1..Len(tasks) :
            timers' = Append(Joined(timers, tasks[i].id),
                             Timer(tasks[i].id, tasks, timers))
    /\ last' = NoCall
    /\ UNCHANGED <<phase, tasks, prioritizing, lastPrioritized, fm_tasks,
                   fm_priority_cache, now, nextId, inflight, editingTask>>

\* the setTimeout callback of handleDone, on the list its closure captured
DoneTimer ==
    \E k \in 1..Len(timers) :
        LET updated == MarkDone(timers[k].tasks, timers[k].id, now)
        IN  /\ tasks' = updated
            /\ fm_tasks' = updated
            /\ timers' = SubSeq(timers, 1, k - 1) \o SubSeq(timers, k + 1, Len(timers))
            /\ last' = NoCall
            /\ UNCHANGED <<phase, prioritizing, lastPrioritized, fm_priority_cache,
                           now, nextId, inflight, editingTask, used>>

\* the deletion kept in memory only: storage.saveTasks left out
handleDeleteUnsaved ==
    /\ phase = "mounted"
    /\ editingTask = <<>>
    /\ used.edits < MaxEdits
    /\ used' = [used EXCEPT !.edits = @ + 1]
    /\ \E i \in 1..Len(tasks) :
            /\ tasks' = Without(tasks, tasks[i].id)
            /\ inflight' = Deleting(inflight, tasks[i].id)
    /\ last' = NoCall
    /\ UNCHANGED <<phase, prioritizing, lastPrioritized, fm_tasks, fm_priority_cache,
                   now, nextId, timers, editingTask>>

\* handleDelete(id), the delete button of a task card
handleDelete ==
    /\ phase = "mounted"
    /\ editingTask = <<>>
    /\ used.edits < MaxEdits
    /\ used' = [used EXCEPT !.edits = @ + 1]
    /\ \E i \in 1..Len(tasks) :
            /\ tasks' = Without(tasks, tasks[i].id)
            /\ fm_tasks' = Without(tasks, tasks[i].id)
            /\ inflight' = Deleting(inflight, tasks[i].id)
    /\ last' = NoCall
    /\ UNCHANGED <<phase, prioritizing, lastPrioritized, fm_priority_cache,
                   now, nextId, timers, editingTask>>

\* handleEdit(task): a click on a task card opens EditTaskModal, whose form
\* is a copy of the task as it is now (useState({...task})). The card of a
\* task that is completing takes no clicks (pointer-events-none). The
\* dialog covers the page (fixed inset-0), so the buttons behind it take no
\* clicks while it is open: the other handlers require editingTask = <<>>.
handleEdit ==
    /\ phase = "mounted"
    /\ editingTask = <<>>
    /\ used.edits < MaxEdits
    /\ used' = [used EXCEPT !.edits = @ + 1]
    /\ \E i \in 1..Len(tasks) :
            /\ \A k \in 1..Len(timers) : timers[k].id # tasks[i].id
            /\ editingTask' = <<tasks[i]>>
    /\ last' = NoCall
    /\ UNCHANGED <<phase, tasks, prioritizing, lastPrioritized, fm_tasks,
                   fm_priority_cache, now, nextId, inflight, timers>>

\* tasks.map((t) => t.id === updated.id ? {...updated} : t)
Replaced(ts, updated) ==
    [i \in 1..Len(ts) |-> IF ts[i].id = updated.id THEN updated ELSE ts[i]]

\* the save button of EditTaskModal: handleSave(form), then onClose. The
\* form's inputs change title, deadline, priority, category, energy and
\* note only; its other fields are those of the copy.
handleSave ==
    /\ editingTask # <<>>
    /\ tasks' = Replaced(tasks, editingTask[1])
    /\ fm_tasks' = Replaced(tasks, editingTask[1])
    /\ editingTask' = <<>>
    /\ last' = NoCall
    /\ UNCHANGED <<phase, prioritizing, lastPrioritized, fm_priority_cache,
                   now, nextId, inflight, timers, used>>

\* the delete button of EditTaskModal: handleDelete(task.id), then onClose
EditDelete ==
    /\ editingTask # <<>>
    /\ tasks' = Without(tasks, editingTask[1].id)
    /\ fm_tasks' = Without(tasks, editingTask[1].id)
    /\ inflight' = Deleting(inflight, editingTask[1].id)
    /\ editingTask' = <<>>
    /\ last' = NoCall
    /\ UNCHANGED <<phase, prioritizing, lastPrioritized, fm_priority_cache,
                   now, nextId, timers, used>>

\* the cancel button of EditTaskModal: onClose
EditClose ==
    /\ editingTask # <<>>
    /\ editingTask' = <<>>
    /\ last' = NoCall
    /\ UNCHANGED <<phase, tasks, prioritizing, lastPrioritized, fm_tasks,
                   fm_priority_cache, now, nextId, inflight, timers, used>>

\* the page is closed or reloaded: component state, pending timers and
\* pending requests go, the storage items stay
PageClose ==
    /\ phase # "closed"
    /\ phase' = "closed"
    /\ tasks' = <<>>
    /\ prioritizing' = FALSE
    /\ lastPrioritized' = NoTime
    /\ inflight' = <<>>
    /\ timers' = <<>>
    /\ editingTask' = <<>>
    /\ last' = NoCall
    /\ UNCHANGED <<fm_tasks, fm_priority_cache, now, nextId, used>>

\* the stored cache text is damaged outside the component (another tab,
\* another version, a manual edit): JSON.parse will reject it. The
\* component reads the item in Render and in the mount effect only, so the
\* damage is placed before one of these reads.
CacheCorrupted ==
    /\ phase \in {"closed", "rendered"}
    /\ fm_priority_cache.kind = "entry"
    /\ fm_priority_cache' = MalformedItem
    /\ last' = NoCall
    /\ UNCHANGED <<phase, tasks, prioritizing, lastPrioritized, fm_tasks,
                   now, nextId, inflight, timers, editingTask, used>>

\* time passes while the page is closed and a cache entry ages
Tick ==
    /\ phase = "closed"
    /\ fm_priority_cache.kind = "entry"
    /\ \E d \in {59 * MinuteMs, 60 * MinuteMs, 61 * MinuteMs} :
            /\ now + d <= MaxNow
            /\ now' = now + d
    /\ last' = NoCall
    /\ UNCHANGED <<phase, tasks, prioritizing, lastPrioritized, fm_tasks,
                   fm_priority_cache, nextId, inflight, timers, editingTask, used>>

Next ==
    \/ Render
    \/ MountStored
    \/ MountSeed
    \/ handleAdd
    \/ handleReprioritize
    \/ OracleResolve
    \/ handleDone
    \/ DoneTimer
    \/ handleDelete
    \/ handleEdit
    \/ handleSave
    \/ EditDelete
    \/ EditClose
    \/ PageClose
    \/ CacheCorrupted
    \/ Tick

Spec == Init /\ [][Next]_vars

\* ------------------------------------------------- a session in progress
\* A mounted component some time after its start: the store holds one or
\* two tasks, at least one of them active (the others were deleted), the
\* cache item is absent (the requests so far were rejected) and nothing is
\* pending. The bounds on requests and edits count from this state on.
InitOverlap ==
    /\ phase = "mounted"
    /\ \E sts \in {<<"active">>, <<"active", "active">>, <<"active", "done">>} :
            /\ tasks = [i \in 1..Len(sts) |-> NewTask(i, sts[i])]
            /\ fm_tasks = [i \in 1..Len(sts) |-> NewTask(i, sts[i])]
            /\ nextId = Len(sts) + 1
    /\ now = 0
    /\ prioritizing = FALSE
    /\ lastPrioritized = NoTime
    /\ fm_priority_cache = AbsentItem
    /\ inflight = <<>>
    /\ timers = <<>>
    /\ editingTask = <<>>
    /\ last = NoCall
    /\ used = [calls |-> 0, rankings |-> 0, opens |-> 1, edits |-> 0]

\* the handlers that call runPrioritize, the oracle's answers and deletions
NextOverlap ==
    \/ handleAdd
    \/ handleReprioritize
    \/ OracleResolve
    \/ handleDelete

SpecOverlap == InitOverlap /\ [][NextOverlap]_vars

\* The session under the assumption that every request is answered: fetch
\* settles (with a response or a rejection), and the event loop then resumes
\* the runPrioritize call that awaits it.
SpecOverlapFair == SpecOverlap /\ WF_vars(OracleResolve)

\* ------------------------------------------ the request sent to the oracle
\* the task lists of up to MaxId tasks, ids in the order uid() handed them
\* out, every task active or done
RequestLists ==
    UNION {[1..n -> {"active", "done"}] : n \in 0..MaxId}

\* the first and the last millisecond of every hour of a day
RequestTimes ==
    UNION {{h * HourMs, h * HourMs + HourMs - 1} : h \in 0..23}

\* a mounted component holding any of the lists at any of the times
InitRequest ==
    /\ phase = "mounted"
    /\ \E sts \in RequestLists :
            /\ tasks = [i \in 1..Len(sts) |-> NewTask(i, sts[i])]
            /\ fm_tasks = [i \in 1..Len(sts) |-> NewTask(i, sts[i])]
    /\ now \in RequestTimes
    /\ prioritizing = FALSE
    /\ lastPrioritized = NoTime
    /\ fm_priority_cache = AbsentItem
    /\ nextId = MaxId + 1
    /\ inflight = <<>>
    /\ timers = <<>>
    /\ editingTask = <<>>
    /\ last = NoCall
    /\ used = [calls |-> 0, rankings |-> 0, opens |-> 1, edits |-> 0]

\* handleReprioritize up to the request prioritizeTasks(active) sends
RequestSent ==
    /\ inflight = <<>>
    /\ RunSync(tasks, TRUE, fm_priority_cache, now).result = "await"
    /\ inflight' = <<Call("reprioritize", tasks, TRUE, inflight)>>
    /\ prioritizing' = TRUE
    /\ used' = [used EXCEPT !.calls = @ + 1]
    /\ last' = [step |-> "request", input |-> tasks, at |-> now,
                request |-> OracleRequest(ActiveOf(tasks), now)]
    /\ UNCHANGED <<phase, tasks, lastPrioritized, fm_tasks, fm_priority_cache,
                   now, nextId, timers, editingTask>>

NextRequest == RequestSent

SpecRequest == InitRequest /\ [][NextRequest]_vars

\* ================================================================ claims
\* the last transition called runPrioritize
CallStarted == last.step = "start"

\* the last transition resumed a runPrioritize call with the oracle's answer
CallResolved == last.step = "resolve"

\* the call of the last transition was made with at least 2 active tasks
EnoughActive == Len(ActiveOf(last.input)) >= 2

\* the oracle's answer to the call of the last transition was a failure
OracleFailed == last.resp.outcome \in FailureOutcomes

\* C1: with fewer than 2 active tasks runPrioritize returns its input
\* unchanged, whatever force and the cache are, sends no oracle request and
\* writes no cache entry.
C1_ThresholdSkip ==
    (CallStarted /\ Len(ActiveOf(last.input)) < 2) =>
        /\ last.result = "return"
        /\ last.ret = last.input
        /\ tasks = last.input
        /\ last.oracleCalls = 0
        /\ last.cacheWrites = 0
        /\ fm_priority_cache = last.cachePre

C1_Witness ==
    /\ CallStarted
    /\ Len(ActiveOf(last.input)) = 1
    /\ last.force
    /\ last.cachePre.kind = "entry"
    /\ last.result = "return"

\* C2: when the oracle fails, a forced runPrioritize on a list with at
\* least 2 active tasks returns the ids of its input in the input's order.
C2_FailureKeepsOrder ==
    (CallResolved /\ last.force /\ EnoughActive /\ OracleFailed) =>
        IdList(last.ret) = IdList(last.input)

\* C3: an oracle failure of any kind leaves the cache item as it was
\* before the call resumed.
C3_FailureWritesNoCache ==
    (CallResolved /\ OracleFailed) =>
        /\ last.cacheWrites = 0
        /\ fm_priority_cache = last.cachePre

\* C4: the list runPrioritize returns holds exactly the ids of its input.
C4_NoTaskRemoved ==
    (last.step # "none" /\ last.result = "return") =>
        IdsOf(last.ret) = IdsOf(last.input)

\* C5: not forced, with a valid cache entry and at least 2 active tasks,
\* runPrioritize returns the reconciliation of the entry with the current
\* tasks and sends no oracle request.
C5_CacheHit ==
    (/\ CallStarted
     /\ ~last.force
     /\ EnoughActive
     /\ last.cachePre.kind = "entry"
     /\ last.at - last.cachePre.at < 3600000) =>
        /\ last.result = "return"
        /\ last.ret = Reconcile(last.cachePre.data, last.input)
        /\ tasks = last.ret
        /\ last.oracleCalls = 0
        /\ inflight = <<>>

C5_Witness ==
    /\ CallStarted
    /\ ~last.force
    /\ EnoughActive
    /\ last.path = "hit"
    /\ last.ret # last.input

\* C6: with at least 2 active tasks runPrioritize sends an oracle request
\* whenever it is forced, and whenever the cache entry is absent or expired.
C6_OracleInvoked ==
    (/\ CallStarted
     /\ EnoughActive
     /\ \/ last.force
        \/ last.cachePre.kind = "absent"
        \/ /\ last.cachePre.kind = "entry"
           /\ last.at - last.cachePre.at >= 3600000) =>
        /\ last.result = "await"
        /\ last.oracleCalls = 1
        /\ inflight # <<>>
        /\ inflight[Len(inflight)].input = last.input

C6_Witness ==
    /\ CallStarted
    /\ ~last.force
    /\ EnoughActive
    /\ last.cachePre.kind = "entry"
    /\ last.at - last.cachePre.at >= 3600000
    /\ last.result = "await"

\* C7: isPriorityCacheValid is true exactly when an entry exists and is
\* less than one hour old: valid 59 minutes after it was written, invalid
\* after 60 and after 61 minutes.
C7_TTL ==
    /\ fm_priority_cache.kind = "absent" =>
            isPriorityCacheValid(fm_priority_cache, now) = "false"
    /\ fm_priority_cache.kind = "entry" =>
            /\ (isPriorityCacheValid(fm_priority_cache, now) = "true")
                    <=> (now - fm_priority_cache.at < 3600000)
            /\ isPriorityCacheValid(fm_priority_cache, now) \in {"true", "false"}
            /\ isPriorityCacheValid(fm_priority_cache,
                    fm_priority_cache.at + 59 * 60000) = "true"
            /\ isPriorityCacheValid(fm_priority_cache,
                    fm_priority_cache.at + 60 * 60000) = "false"
            /\ isPriorityCacheValid(fm_priority_cache,
                    fm_priority_cache.at + 61 * 60000) = "false"
    /\ (CallStarted /\ ~last.force /\ EnoughActive /\ last.cachePre.kind = "entry") =>
            (last.path = "hit" <=> last.at - last.cachePre.at < 3600000)

C7_Witness ==
    /\ CallStarted
    /\ ~last.force
    /\ EnoughActive
    /\ last.cachePre.kind = "entry"
    /\ last.at = last.cachePre.at + 60 * 60000
    /\ last.path = "oracle"

\* C8: on an absent or an unparsable cache item isPriorityCacheValid
\* returns false and does not throw.
C8_MalformedIsInvalid ==
    (/\ CallStarted
     /\ ~last.force
     /\ EnoughActive
     /\ last.cachePre.kind \in {"absent", "malformed"}) =>
        /\ isPriorityCacheValid(last.cachePre, last.at) = "false"
        /\ last.result # "raise"

\* C9: runPrioritize never raises or rejects to its caller.
C9_NeverRaises ==
    last.step # "none" => last.result \in {"return", "await"}

\* the ids of the order that were submitted, in the order's order
KeptIds(order, submitted) ==
    SelectSeq(order, LAMBDA id : id \in IdsOf(submitted))

\* ret is the submitted tasks arranged as kept says, task i carrying the
\* reason reasonOf gives its id, followed by the non-active tasks
ArrangedAs(ret, kept, reasonOf(_), cur) ==
    /\ Len(ret) = Len(kept) + Len(DoneOf(cur))
    /\ \A i \in 1..Len(kept) :
            /\ ret[i].id = kept[i]
            /\ ret[i].priorityReason = reasonOf(kept[i])
            /\ \E j \in 1..Len(cur) :
                    /\ IsActive(cur[j])
                    /\ ret[i] = [cur[j] EXCEPT !.priorityReason = reasonOf(kept[i])]
    /\ SubSeq(ret, Len(kept) + 1, Len(ret)) = DoneOf(cur)

OracleSucceeded == last.resp.outcome = "json"

CacheHit == CallStarted /\ last.path = "hit"

\* C12: the cache-hit path writes no cache entry: after a reconciliation,
\* also one that drops a deleted task's id or appends an added task, the
\* entry (data and at) is what it was before the call, and no step of the
\* component changes an entry except the resumption of an oracle call
\* (the only other change is the damage done to the item from outside).
C12_HitWritesNothing ==
    /\ [](CacheHit => /\ last.cacheWrites = 0
                       /\ last.oracleCalls = 0
                       /\ fm_priority_cache = last.cachePre)
    /\ [][(fm_priority_cache.kind = "entry"
            /\ fm_priority_cache' # fm_priority_cache) =>
                \/ last'.step = "resolve"
                \/ fm_priority_cache' = MalformedItem]_vars

C12_Witness ==
    /\ CacheHit
    /\ \E i \in 1..Len(last.cachePre.data) :
            last.cachePre.data[i].id \notin IdsOf(last.input)
    /\ \E i \in 1..Len(last.input) :
            /\ IsActive(last.input[i])
            /\ last.input[i].id \notin IdsOf(last.cachePre.data)
    /\ fm_priority_cache = last.cachePre
    /\ now > last.cachePre.at

\* the tasks of cur whose ids the entry's data does not name
Uncached(data, cur) ==
    SelectSeq(cur, LAMBDA t : t.id \notin IdsOf(data))

\* the ids of the entry's data that cur still holds, in the data's order
CachedExisting(data, cur) ==
    SelectSeq(IdList(data), LAMBDA id : id \in IdsOf(cur))

\* C13: the reconciliation result is the cached ids that still exist, in
\* cache order, then the active tasks the cache does not name, in their
\* relative order, then the non-active tasks, in their relative order;
\* also when non-active tasks are interleaved with active ones and when a
\* cached task has been marked done since.
C13_ReconcileOrder ==
    CacheHit =>
        IdList(last.ret) =
            CachedExisting(last.cachePre.data, last.input)
            \o IdList(ActiveOf(Uncached(last.cachePre.data, last.input)))
            \o IdList(DoneOf(Uncached(last.cachePre.data, last.input)))

\* how many records of ts carry this id
Occurrences(ts, id) == Cardinality({i \in 1..Len(ts) : ts[i].id = id})

\* C14: the reconciliation output holds exactly one record for every
\* active task of the current list, whatever the cache entry is.
C14_ExactlyOnce ==
    CacheHit =>
        \A id \in IdsOf(ActiveOf(last.input)) : Occurrences(last.ret, id) = 1

\* C15: an id the cache entry names and the current list does not hold
\* never appears in the reconciled output, and raises no error.
C15_NoResurrection ==
    (/\ CallStarted
     /\ ~last.force
     /\ EnoughActive
     /\ last.cachePre.kind = "entry"
     /\ last.at - last.cachePre.at < 3600000) =>
        /\ last.result = "return"
        /\ \A i \in 1..Len(last.cachePre.data) :
                last.cachePre.data[i].id \notin IdsOf(last.input) =>
                    /\ last.cachePre.data[i].id \notin IdsOf(last.ret)
                    /\ last.cachePre.data[i].id \notin IdsOf(tasks)
                    /\ last.cachePre.data[i].id \notin IdsOf(fm_tasks)

C15_Witness ==
    /\ CacheHit
    /\ Len(last.cachePre.data) = 2
    /\ last.cachePre.data[1].id \notin IdsOf(last.input)
    /\ last.cachePre.data[2].id \in IdsOf(last.input)
    /\ last.ret[1].id = last.cachePre.data[2].id

\* C16: in the reconciliation output every task whose id the cache entry
\* does not name comes after every task whose id it names; the cache
\* [T2, T1] and an added active T3 give [T2, T1, T3].
C16_AddedAfterCached ==
    CacheHit =>
        \A i, j \in 1..Len(last.ret) :
            (/\ last.ret[i].id \in IdsOf(last.cachePre.data)
             /\ last.ret[j].id \notin IdsOf(last.cachePre.data)) => i < j

C16_Witness ==
    /\ CacheHit
    /\ Len(last.cachePre.data) = 2
    /\ Len(last.input) >= 3
    /\ IsActive(last.input[1])
    /\ last.input[1].id \notin IdsOf(last.cachePre.data)
    /\ IdList(SubSeq(last.ret, 1, 3)) =
            <<last.cachePre.data[1].id, last.cachePre.data[2].id, last.input[1].id>>

\* no two records of ts share an id
UniqueIds(ts) == \A i, j \in 1..Len(ts) : ts[i].id = ts[j].id => i = j

\* C17: in every reachable state no two task records of the task store,
\* in memory or persisted, share an id.
C17_UniqueIds == UniqueIds(tasks) /\ UniqueIds(fm_tasks)

\* C18: a task that is done in the task store is not active in the task
\* store after any later step.
C18_StatusMonotone ==
    [][\A i \in 1..Len(fm_tasks) : \A j \in 1..Len(fm_tasks') :
            (/\ fm_tasks[i].id = fm_tasks'[j].id
             /\ fm_tasks[i].status = "done") => fm_tasks'[j].status = "done"]_vars

\* every task of ts has doneAt set exactly when its status is done
DoneAtIffDone(ts) ==
    \A i \in 1..Len(ts) : (ts[i].doneAt # NoTime) <=> (ts[i].status = "done")

\* C19: in every reachable state, the seeded one included, a task of the
\* task store has doneAt set if and only if its status is done.
C19_DoneAtIffDone == DoneAtIffDone(tasks) /\ DoneAtIffDone(fm_tasks)

\* C20: doneAt is set once, at the step that takes the task from active to
\* done: no step changes a doneAt that is set, and a step that sets one
\* takes the task from active to done.
C20_DoneAtSetOnce ==
    [][\A i \in 1..Len(fm_tasks) : \A j \in 1..Len(fm_tasks') :
            fm_tasks[i].id = fm_tasks'[j].id =>
                /\ fm_tasks[i].doneAt # NoTime =>
                        fm_tasks'[j].doneAt = fm_tasks[i].doneAt
                /\ (fm_tasks[i].doneAt = NoTime /\ fm_tasks'[j].doneAt # NoTime) =>
                        (fm_tasks[i].status = "active"
                         /\ fm_tasks'[j].status = "done")]_vars

\* C21: reconciliation is idempotent: reconciling the output of a
\* reconciliation against the same entry returns that output unchanged, so
\* the list the caller stores is reconciled to itself by the next call on
\* the same entry.
C21_Idempotent ==
    CacheHit =>
        /\ Reconcile(last.cachePre.data, last.ret) = last.ret
        /\ tasks = last.ret
        /\ fm_tasks = last.ret
        /\ RunSync(fm_tasks, FALSE, fm_priority_cache, last.at).ret = last.ret

C21_Witness ==
    /\ CacheHit
    /\ last.ret # last.input
    /\ Len(Reordered(last.cachePre.data, last.input)) >= 2
    /\ Len(Remaining(last.cachePre.data, last.input)) >= 2
    /\ Reconcile(last.cachePre.data, last.ret) = last.ret

\* the list of pairs savePriorityCache is given for the returned list ret
\* of a call on cur: the pairs of the tasks before the non-active ones
CachedPairsOf(ret, cur) ==
    CacheData(SubSeq(ret, 1, Len(ret) - Len(DoneOf(cur))))

\* the last transition resumed the last of several overlapping calls
LastOfOverlapping == CallResolved /\ last.overlapped /\ inflight = <<>>

\* a call made while another is awaiting the oracle also awaits it
OverlappingCallAwaits ==
    (CallStarted /\ last.overlapped /\ last.force /\ EnoughActive) =>
        /\ last.result = "await"
        /\ Len(inflight) >= 2
        /\ inflight[Len(inflight)].input = last.input

\* C22, as stated: runPrioritize calls overlap, and after all of them have
\* resolved the task store and the cache entry hold the result of the call
\* that resolved last.
C22_Original ==
    /\ OverlappingCallAwaits
    /\ LastOfOverlapping =>
            /\ tasks = last.ret
            /\ fm_tasks = last.ret
            /\ fm_priority_cache = Entry(CachedPairsOf(last.ret, last.input), now)

\* C22, amended: as above, the cache entry being that of the call that
\* resolved last unless that call's request was rejected, in which case
\* the cache item is what it was before the call resumed.
C22_LastWriteWins ==
    /\ OverlappingCallAwaits
    /\ LastOfOverlapping =>
            /\ tasks = last.ret
            /\ fm_tasks = last.ret
            /\ fm_priority_cache =
                    IF callClaudeThrows(last.resp) THEN last.cachePre
                    ELSE Entry(CachedPairsOf(last.ret, last.input), now)

C22_Witness ==
    /\ LastOfOverlapping
    /\ last.origin = "add"
    /\ last.cachePre.kind = "entry"
    /\ ~callClaudeThrows(last.resp)
    /\ fm_priority_cache # last.cachePre
    /\ IdsOf(last.cachePre.data) # IdsOf(fm_priority_cache.data)

\* C23: the oracle is given the active tasks only, and the time of day is
\* morning for the hours 0-11, afternoon for 12-16 and evening for 17-23.
C23_RequestContent ==
    last.step = "request" =>
        LET hour == last.at \div 3600000
        IN  /\ hour \in 0..23
            /\ last.request.tasks =
                    IdList(SelectSeq(last.input, LAMBDA t : t.status = "active"))
            /\ \A i \in 1..Len(last.input) :
                    last.input[i].status # "active" =>
                        last.input[i].id \notin SeqToSet(last.request.tasks)
            /\ hour \in 0..11 => last.request.timeOfDay = "morning"
            /\ hour \in 12..16 => last.request.timeOfDay = "afternoon"
            /\ hour \in 17..23 => last.request.timeOfDay = "evening"

C23_Witness ==
    /\ last.step = "request"
    /\ last.at = 12 * 3600000
    /\ last.request.timeOfDay = "afternoon"
    /\ Len(last.request.tasks) = 2
    /\ Len(last.input) = 4

\* C24: a task deleted while an oracle call was in flight is in neither
\* the in-memory nor the persisted task store after that call has resolved
\* and its result has been written back.
C24_DeletedStaysDeleted ==
    CallResolved =>
        \A id \in last.deleted :
            /\ id \notin IdsOf(tasks)
            /\ id \notin IdsOf(fm_tasks)

\* C25: when two add operations overlap, both added tasks are in the task
\* store once both operations have resolved (unless the user deleted one
\* of them meanwhile).
C25_BothAddsKept ==
    (/\ LastOfOverlapping
     /\ last.origin = "add"
     /\ Cardinality(last.adds) >= 2
     /\ last.adds \cap last.deleted = {}) =>
        /\ last.adds \subseteq IdsOf(tasks)
        /\ last.adds \subseteq IdsOf(fm_tasks)

\* the step runs the last pending callback of handleDone
LastTimerRuns ==
    /\ Len(timers) = 1
    /\ timers' = <<>>
    /\ phase' = "mounted"

\* C26: when completion is requested for two different active tasks within
\* the completion delay of each other, neither task is active in the task
\* store after both delayed updates have run.
C26_BothDone ==
    [][(/\ LastTimerRuns
        /\ Cardinality(timers[1].within) >= 2
        /\ \A i \in 1..Len(timers[1].tasks) :
                timers[1].tasks[i].id \in timers[1].within =>
                    timers[1].tasks[i].status = "active") =>
            /\ \A j \in 1..Len(tasks') :
                    tasks'[j].id \in timers[1].within => tasks'[j].status = "done"
            /\ \A j \in 1..Len(fm_tasks') :
                    fm_tasks'[j].id \in timers[1].within => fm_tasks'[j].status = "done"]_vars

\* C27: the prioritizing flag is true exactly while a runPrioritize call
\* is awaiting the oracle, also when two calls overlap and one has finished.
C27_PrioritizingWhileInFlight ==
    prioritizing <=> (inflight # <<>>)

\* C28: whenever the component is rendered and no handler is in the
\* middle of a step, the persisted task list equals the in-memory one.
C28_PersistedIsInMemory ==
    phase \in {"rendered", "mounted"} => fm_tasks = tasks

C28_Witness ==
    /\ phase = "mounted"
    /\ fm_tasks = tasks
    /\ Len(tasks) = 3
    /\ \E i \in 1..Len(tasks) : tasks[i].id > SeedActive + 1
    /\ \E i \in 1..Len(tasks) : tasks[i].doneAt # NoTime
    /\ \E i \in 1..Len(tasks) : tasks[i].priorityReason = "r"

\* C29: when the oracle call of an add fails (network error, non-2xx,
\* missing credential, unparsable response), the task store then holds the
\* added task and every task of the store at the time of the add.
C29_FailedAddKeepsTasks ==
    (CallResolved /\ last.origin = "add" /\ OracleFailed) =>
        /\ Len(last.input) >= 2
        /\ IdsOf(last.input) \subseteq IdsOf(tasks)
        /\ IdsOf(last.input) \subseteq IdsOf(fm_tasks)
        /\ \A i \in 1..Len(last.input) :
                /\ Occurrences(tasks, last.input[i].id)
                        = Occurrences(last.input, last.input[i].id)
                /\ \E j \in 1..Len(tasks) : tasks[j] = last.input[i]

C29_Witness ==
    /\ CallResolved
    /\ last.origin = "add"
    /\ last.resp.outcome = "non_2xx"
    /\ Len(last.input) = 4
    /\ ~IsActive(last.input[2])
    /\ IsActive(last.input[3])
    /\ IdList(tasks) # IdList(last.input)
    /\ IdsOf(tasks) = IdsOf(last.input)

\* C30: every runPrioritize call that awaits the oracle completes once the
\* oracle has answered or rejected its request, and whenever no call is
\* awaiting the oracle the prioritizing flag is false (reset on success, on
\* a parse failure and on a thrown error alike).
C30_CallsComplete ==
    /\ [](inflight = <<>> => ~prioritizing)
    /\ (inflight # <<>>) ~> (inflight = <<>>)

C30_Witness ==
    /\ CallResolved
    /\ last.overlapped
    /\ callClaudeThrows(last.resp)
    /\ inflight = <<>>
    /\ ~prioritizing

\* the flag is also false whenever no call awaits the oracle in a session
\* followed from its first render
NoCallNotPrioritizing == inflight = <<>> => ~prioritizing

====
